---- MODULE Spec2Model ----
(***************************************************************************)
(* Model of src/src/unionfind.rs: the disjoint-set forest `UnionFind` with *)
(* its parent table, its list of deprecated leaders, and the operations    *)
(* make_set, size, find, find_mut, union and split.                        *)
(*                                                                         *)
(* An Id is a natural number; the Rust vector `parents` (indexed from 0)   *)
(* is the TLA+ sequence `parents` (indexed from 1), so parents[q + 1] is   *)
(* the parent of q.  A panic is an outcome of the call: the instance keeps *)
(* whatever the call had written before it panicked.                       *)
(***************************************************************************)
EXTENDS Naturals, Sequences, FiniteSets

\* Bounds of the exploration (not program constants).
MaxIds == 3
MaxAnyIds == 2
MaxMembers == 2
MaxMergeIds == 4

VARIABLES
    parents,             \* UnionFind.parents
    deprecated_leaders,  \* UnionFind.deprecated_leaders
    last,                \* the call that has just ended (or is stuck), with its outcome
    make_set_calls,      \* history: number of make_set calls made so far
    split_called,        \* history: the leader ids passed to split so far
    relinked,            \* history: TRUE once union or split has been called
    named_leaders        \* history: TRUE while every split named only leaders as new leaders

vars == <<parents, deprecated_leaders, last, make_set_calls, split_called, relinked,
          named_leaders>>

----------------------------------------------------------------------------
\* Helpers

\* Vec::contains
Contains(s, e) == \E i \in 1..Len(s) : s[i] = e

\* The ids allocated in a parent table
Ids(ps) == 0..(Len(ps) - 1)

\* Outcomes of a call
Ok(id) == [kind |-> "ok", id |-> id]
Panic(msg, d, original) == [kind |-> "panic", msg |-> msg, d |-> d, original |-> original]
Hang == [kind |-> "hang"]
Idle == [op |-> "idle"]

----------------------------------------------------------------------------
\* The operations, as functions of the fields.  Each operation is preceded
\* by the faulty variants of it that the properties below are tried against.

\* size, lines 18-20
size(ps) == Len(ps)

\* parent, lines 22-24
parent(ps, query) == ps[query + 1]

\* parent_mut, lines 26-28, with the value written through the reference
parent_mut(ps, query, value) == [ps EXCEPT ![query + 1] = value]

\* Faulty make_set: the id returned is one too large.
make_set_off_by_one(ps) == [ret |-> Len(ps) + 1, parents |-> Append(ps, Len(ps))]

\* make_set, lines 12-16
make_set(ps) == [ret |-> Len(ps), parents |-> Append(ps, Len(ps))]

\* The loop of find, lines 35-41.  A walk of more than Len(ps) links has
\* visited some id twice, and the loop (which writes nothing) then never ends.
RECURSIVE find_loop(_, _, _, _, _)
find_loop(ps, dl, original, current, fuel) ==
    IF current = parent(ps, current) THEN Ok(current)
    ELSE IF Contains(dl, current) THEN Panic("found", current, original)
    ELSE IF fuel = 0 THEN Hang
    ELSE find_loop(ps, dl, original, parent(ps, current), fuel - 1)

\* find, lines 30-42
find(ps, dl, current) ==
    IF Contains(dl, current) THEN Panic("trying", current, current)
    ELSE find_loop(ps, dl, current, current, Len(ps))

\* Faulty loop of find_mut: the failure names the query as the deprecated id.
RECURSIVE find_mut_loop_names_query(_, _, _, _, _)
find_mut_loop_names_query(ps, dl, original, current, fuel) ==
    IF current = parent(ps, current) THEN [ret |-> Ok(current), parents |-> ps]
    ELSE IF Contains(dl, current)
         THEN [ret |-> Panic("found", original, original), parents |-> ps]
    ELSE IF fuel = 0 THEN [ret |-> Hang, parents |-> ps]
    ELSE LET grandparent == parent(ps, parent(ps, current))
         IN  find_mut_loop_names_query(parent_mut(ps, current, grandparent), dl, original,
                                       grandparent, fuel - 1)

\* Faulty loop of find_mut: the deprecated id at which it fails is made its
\* own parent.
RECURSIVE find_mut_loop_cuts_deprecated(_, _, _, _, _)
find_mut_loop_cuts_deprecated(ps, dl, original, current, fuel) ==
    IF current = parent(ps, current) THEN [ret |-> Ok(current), parents |-> ps]
    ELSE IF Contains(dl, current)
         THEN [ret |-> Panic("found", current, original),
               parents |-> parent_mut(ps, current, current)]
    ELSE IF fuel = 0 THEN [ret |-> Hang, parents |-> ps]
    ELSE LET grandparent == parent(ps, parent(ps, current))
         IN  find_mut_loop_cuts_deprecated(parent_mut(ps, current, grandparent), dl,
                                           original, grandparent, fuel - 1)

\* The loop of find_mut, lines 49-57: path halving.  Every pass either ends
\* the loop or shortens the walk left, so 2 * Len(ps) passes are never used up.
RECURSIVE find_mut_loop(_, _, _, _, _)
find_mut_loop(ps, dl, original, current, fuel) ==
    IF current = parent(ps, current) THEN [ret |-> Ok(current), parents |-> ps]
    ELSE IF Contains(dl, current)
         THEN [ret |-> Panic("found", current, original), parents |-> ps]
    ELSE IF fuel = 0 THEN [ret |-> Hang, parents |-> ps]
    ELSE LET grandparent == parent(ps, parent(ps, current))
         IN  find_mut_loop(parent_mut(ps, current, grandparent), dl, original,
                           grandparent, fuel - 1)

\* Faulty find_mut: the queried id is made its own parent and returned.
find_mut_detach(ps, dl, current) ==
    IF Contains(dl, current)
    THEN [ret |-> Panic("trying", current, current), parents |-> ps]
    ELSE IF current = parent(ps, current) THEN [ret |-> Ok(current), parents |-> ps]
    ELSE [ret |-> Ok(current), parents |-> parent_mut(ps, current, current)]

\* Faulty find_mut: the queried id is put straight under its leader, and no
\* other entry is written.
find_mut_flatten(ps, dl, current) ==
    LET r == find(ps, dl, current)
    IN  IF r.kind = "ok" THEN [ret |-> r, parents |-> parent_mut(ps, current, r.id)]
        ELSE [ret |-> r, parents |-> ps]

\* find_mut, lines 44-58
find_mut(ps, dl, current) ==
    IF Contains(dl, current)
    THEN [ret |-> Panic("trying", current, current), parents |-> ps]
    ELSE find_mut_loop(ps, dl, current, current, 2 * Len(ps))

\* The loop of the test union_find, lines 111-113: find_mut on every id from i
\* on, in ascending order.  A panic ends the loop.
RECURSIVE find_mut_pass(_, _, _)
find_mut_pass(ps, dl, i) ==
    IF i >= Len(ps) THEN [ret |-> [kind |-> "unit"], parents |-> ps]
    ELSE LET r == find_mut(ps, dl, i)
         IN  IF r.ret.kind = "ok" THEN find_mut_pass(r.parents, dl, i + 1) ELSE r

\* Faulty union: root1 is put under root2.
union_reversed(ps, root1, root2) == [ret |-> root1, parents |-> parent_mut(ps, root1, root2)]

\* union, lines 61-64
union(ps, root1, root2) == [ret |-> root1, parents |-> parent_mut(ps, root2, root1)]

\* Faulty insertions: the push without its guard, and no push at all.
split_deprecate_always(dl, leader_id) == Append(dl, leader_id)

split_deprecate_never(dl, leader_id) == dl

\* split, lines 68-70: the idempotent insertion
split_deprecate(dl, leader_id) ==
    IF ~Contains(dl, leader_id) THEN Append(dl, leader_id) ELSE dl

\* Faulty inner loop: the new leader is put under the member.
RECURSIVE split_members_reversed(_, _, _)
split_members_reversed(ps, new_leader, members) ==
    IF members = << >> THEN ps
    ELSE split_members_reversed(parent_mut(ps, new_leader, Head(members)), new_leader,
                                Tail(members))

\* split, lines 72-74: the inner loop over one cluster's members
RECURSIVE split_members(_, _, _)
split_members(ps, new_leader, members) ==
    IF members = << >> THEN ps
    ELSE split_members(parent_mut(ps, Head(members), new_leader), new_leader, Tail(members))

\* Faulty outer loop: the clusters are gone through from the last to the first.
RECURSIVE split_clusters_backwards(_, _)
split_clusters_backwards(ps, clusters) ==
    IF clusters = << >> THEN ps
    ELSE split_members(split_clusters_backwards(ps, Tail(clusters)),
                       Head(clusters)[1], Head(clusters)[2])

\* split, lines 71-75: the outer loop over the clusters, in list order.
\* A cluster is a pair <<new_leader, members>>.
RECURSIVE split_clusters(_, _)
split_clusters(ps, clusters) ==
    IF clusters = << >> THEN ps
    ELSE split_clusters(split_members(ps, Head(clusters)[1], Head(clusters)[2]), Tail(clusters))

\* split, lines 67-76
split(ps, dl, leader_id, clusters) ==
    [parents |-> split_clusters(ps, clusters),
     deprecated_leaders |-> split_deprecate(dl, leader_id)]

----------------------------------------------------------------------------
\* The arguments a caller passes to split: every list of clusters with new
\* leaders from L and members from M that holds at most m member entries in
\* all.  A cluster with no members makes the inner loop of split run zero
\* times, so only clusters with members are listed; the empty list of
\* clusters is.
RECURSIVE ClusterLists(_, _, _)
ClusterLists(L, M, m) ==
    {<< >>} \cup
    UNION { UNION { { <<<<new_leader, members>>>> \o rest :
                        new_leader \in L, members \in [1..k -> M] }
                    : rest \in ClusterLists(L, M, m - k) }
            : k \in 1..m }

\* The cluster lists over all of the first n ids, tabulated by n
ClusterArgs ==
    [n \in 0..MaxAnyIds |-> ClusterLists(0..(n - 1), 0..(n - 1), MaxMembers)]

\* The ids a cluster list names as members, and as new leaders
MembersOf(clusters) == UNION { {clusters[i][2][j] : j \in 1..Len(clusters[i][2])}
                               : i \in 1..Len(clusters) }
LeadersOf(clusters) == {clusters[i][1] : i \in 1..Len(clusters)}

\* The id at which the parent chain from x ends: <<TRUE, root>>, or
\* <<FALSE, x>> when the chain runs into a cycle.  Deprecation is not looked at.
RECURSIVE ChainEnd(_, _, _)
ChainEnd(ps, x, fuel) ==
    IF parent(ps, x) = x THEN <<TRUE, x>>
    ELSE IF fuel = 0 THEN <<FALSE, x>>
    ELSE ChainEnd(ps, parent(ps, x), fuel - 1)

\* x belongs to the class of leader_id: its parent chain ends at leader_id
InClass(ps, x, leader_id) == ChainEnd(ps, x, Len(ps)) = <<TRUE, leader_id>>

\* x is a leader (a root): it is its own parent
IsLeader(ps, x) == parent(ps, x) = x

----------------------------------------------------------------------------
\* The state machine.  A call runs to its end in one step and leaves its
\* outcome in `last`; Return hands control back to the caller, who may then
\* make the next call.  A call that hangs never returns.

Pre == [parents |-> parents, deprecated_leaders |-> deprecated_leaders]

Init ==
    /\ parents = << >>
    /\ deprecated_leaders = << >>
    /\ last = Idle
    /\ make_set_calls = 0
    /\ split_called = {}
    /\ relinked = FALSE
    /\ named_leaders = TRUE

MakeSet(bound) ==
    /\ last = Idle
    /\ Len(parents) < bound
    /\ LET r == make_set(parents)
       IN  /\ parents' = r.parents
           /\ last' = [op |-> "make_set", args |-> << >>, ret |-> Ok(r.ret), pre |-> Pre]
    /\ make_set_calls' = make_set_calls + 1
    /\ UNCHANGED <<deprecated_leaders, split_called, relinked, named_leaders>>

Find ==
    /\ last = Idle
    /\ \E x \in Ids(parents) :
          last' = [op |-> "find", args |-> <<x>>,
                   ret |-> find(parents, deprecated_leaders, x), pre |-> Pre]
    /\ UNCHANGED <<parents, deprecated_leaders, make_set_calls, split_called, relinked, named_leaders>>

FindMut ==
    /\ last = Idle
    /\ \E x \in Ids(parents) :
          LET r == find_mut(parents, deprecated_leaders, x)
          IN  /\ parents' = r.parents
              /\ last' = [op |-> "find_mut", args |-> <<x>>, ret |-> r.ret, pre |-> Pre]
    /\ UNCHANGED <<deprecated_leaders, make_set_calls, split_called, relinked, named_leaders>>

UnionCall(root1, root2) ==
    /\ LET r == union(parents, root1, root2)
       IN  /\ parents' = r.parents
           /\ last' = [op |-> "union", args |-> <<root1, root2>>, ret |-> Ok(r.ret), pre |-> Pre]
    /\ relinked' = TRUE
    /\ UNCHANGED <<deprecated_leaders, make_set_calls, split_called, named_leaders>>

SplitCall(leader_id, clusters) ==
    /\ LET r == split(parents, deprecated_leaders, leader_id, clusters)
       IN  /\ parents' = r.parents
           /\ deprecated_leaders' = r.deprecated_leaders
           /\ last' = [op |-> "split", args |-> <<leader_id, clusters>>,
                       ret |-> [kind |-> "unit"], pre |-> Pre]
    /\ split_called' = split_called \cup {leader_id}
    /\ relinked' = TRUE
    /\ named_leaders' = (named_leaders /\ \A l \in LeadersOf(clusters) : IsLeader(parents, l))
    /\ UNCHANGED make_set_calls

Return ==
    /\ last # Idle
    /\ last.ret.kind # "hang"
    /\ last' = Idle
    /\ UNCHANGED <<parents, deprecated_leaders, make_set_calls, split_called, relinked, named_leaders>>

\* The leaders of a parent table
Leaders(ps) == {x \in Ids(ps) : IsLeader(ps, x)}

\* The class of leader_id
Class(ps, leader_id) == {x \in Ids(ps) : InClass(ps, x, leader_id)}

\* Any caller: union and split with any allocated ids
Union ==
    /\ last = Idle
    /\ \E root1, root2 \in Ids(parents) : UnionCall(root1, root2)

Split ==
    /\ last = Idle
    /\ \E leader_id \in Ids(parents) :
          \E clusters \in ClusterArgs[Len(parents)] :
              SplitCall(leader_id, clusters)

Next == MakeSet(MaxAnyIds) \/ Find \/ FindMut \/ Union \/ Split \/ Return

Spec == Init /\ [][Next]_vars

\* A caller that keeps the documented preconditions of union and split:
\* union is called on two leaders, and the members a split lists belong to
\* the class of its leader_id.
UnionLeaders ==
    /\ last = Idle
    /\ \E root1, root2 \in Leaders(parents) : UnionCall(root1, root2)

SplitClass ==
    /\ last = Idle
    /\ \E leader_id \in Ids(parents) :
          \E clusters \in ClusterLists(Ids(parents), Class(parents, leader_id), MaxMembers) :
              SplitCall(leader_id, clusters)

NextContract == MakeSet(MaxIds) \/ Find \/ FindMut \/ UnionLeaders \/ SplitClass \/ Return

SpecContract == Init /\ [][NextContract]_vars

\* The same caller, who moreover names only leaders as new leaders
SplitLeaders ==
    /\ last = Idle
    /\ \E leader_id \in Ids(parents) :
          \E clusters \in ClusterLists(Leaders(parents), Class(parents, leader_id), MaxMembers) :
              SplitCall(leader_id, clusters)

NextLeaders == MakeSet(MaxIds) \/ Find \/ FindMut \/ UnionLeaders \/ SplitLeaders \/ Return

SpecLeaders == Init /\ [][NextLeaders]_vars

\* A caller that only merges: no split
NextNoSplit == MakeSet(MaxMergeIds) \/ Find \/ FindMut \/ UnionLeaders \/ Return

SpecNoSplit == Init /\ [][NextNoSplit]_vars

\* A caller that allocates and merges, and then makes one pass of find_mut
\* over all the ids, as the test union_find does.
FindMutPass ==
    /\ last = Idle
    /\ LET r == find_mut_pass(parents, deprecated_leaders, 0)
       IN  /\ parents' = r.parents
           /\ last' = [op |-> "find_mut_pass", args |-> << >>, ret |-> r.ret, pre |-> Pre]
    /\ UNCHANGED <<deprecated_leaders, make_set_calls, split_called, relinked, named_leaders>>

ReturnToMerge ==
    /\ last.op \in {"make_set", "union"}
    /\ Return

NextPass == MakeSet(MaxMergeIds) \/ UnionLeaders \/ FindMutPass \/ ReturnToMerge

SpecPass == Init /\ [][NextPass]_vars

----------------------------------------------------------------------------
\* Vocabulary of the properties

\* The ids in the deprecated-leader collection
Deprecated(dl) == {dl[i] : i \in 1..Len(dl)}

\* The ids on the parent chain that starts at x
RECURSIVE ChainFrom(_, _, _)
ChainFrom(ps, x, fuel) ==
    IF fuel = 0 \/ parent(ps, x) = x THEN {x}
    ELSE {x} \cup ChainFrom(ps, parent(ps, x), fuel - 1)

Chain(ps, x) == ChainFrom(ps, x, Len(ps))

\* Following parent links from any id reaches an id that is its own parent
Forest(ps) == \A x \in Ids(ps) : ChainEnd(ps, x, Len(ps))[1]

\* No id occurs twice in a list
NoDuplicates(s) == \A i, j \in 1..Len(s) : s[i] = s[j] => i = j

\* The pairs <<new_leader, member>> a cluster list names
Pairs(clusters) ==
    UNION { {<<clusters[i][1], clusters[i][2][j]>> : j \in 1..Len(clusters[i][2])}
            : i \in 1..Len(clusters) }

\* The number of links from x to the end of its parent chain, in a forest
Links(ps, x) == Cardinality(Chain(ps, x)) - 1

\* The members of the i-th cluster of a list
ClusterMembers(clusters, i) == {clusters[i][2][j] : j \in 1..Len(clusters[i][2])}

\* The new leader of the last cluster of the list that lists m
LastLeader(clusters, m) ==
    LET i == CHOOSE k \in 1..Len(clusters) :
                 /\ m \in ClusterMembers(clusters, k)
                 /\ \A j \in (k + 1)..Len(clusters) : m \notin ClusterMembers(clusters, j)
    IN  clusters[i][1]

\* The ids on which the body of the loop of find_mut runs, in a forest with
\* no deprecated id: x, its grandparent, and so on, short of the leader
RECURSIVE Visited(_, _, _)
Visited(ps, x, fuel) ==
    IF fuel = 0 \/ parent(ps, x) = x THEN {}
    ELSE {x} \cup Visited(ps, parent(ps, parent(ps, x)), fuel - 1)

\* find in the state before the call in `last`, and in the current state
FindBefore(x) == find(last.pre.parents, last.pre.deprecated_leaders, x)
FindNow(x) == find(parents, deprecated_leaders, x)
FindMutNow(x) == find_mut(parents, deprecated_leaders, x).ret

\* The fields after the split in `last` is called once more, with the same
\* arguments, in the current state
SplitAgain == split(parents, deprecated_leaders, last.args[1], last.args[2])

----------------------------------------------------------------------------
\* C1.  Deprecation permanence: once split(L, _) has been called, find(L) and
\* find_mut(L) fail with the stale-reference violation in every later state,
\* whatever calls were made in between; a call of either on such an L that
\* has just ended reports L as the deprecated id and as the query.
C1_DeprecationPermanence ==
    /\ \A L \in split_called :
          /\ FindNow(L).kind = "panic"
          /\ FindMutNow(L).kind = "panic"
    /\ (last.op \in {"find", "find_mut"} /\ last.args[1] \in split_called)
          => last.ret = Panic("trying", last.args[1], last.args[1])

\* find has just failed on a split leader that a later call had re-linked
\* under another id.
C1_Witness ==
    /\ last.op = "find"
    /\ last.args[1] \in split_called
    /\ ~IsLeader(parents, last.args[1])
    /\ last.ret.kind = "panic"

\* C2.  find(id) and find_mut(id) fail whenever an id on the parent chain from
\* id is deprecated (the first and the last id of the chain included), and so
\* neither ever returns a deprecated id.
C2_FailsOnEveryDeprecatedOnChain ==
    \A x \in Ids(parents) :
        /\ (Chain(parents, x) \cap Deprecated(deprecated_leaders) # {})
              => (FindNow(x).kind = "panic" /\ FindMutNow(x).kind = "panic")
        /\ FindNow(x).kind = "ok" => ~Contains(deprecated_leaders, FindNow(x).id)
        /\ FindMutNow(x).kind = "ok" => ~Contains(deprecated_leaders, FindMutNow(x).id)

\* C3 as stated.  After split(L, clusters) whose members belonged to the class
\* of L, find(m) = new_leader for every member m of every cluster.
C3_SplitReassignsEveryMember ==
    (last.op = "split" /\ \A m \in MembersOf(last.args[2]) :
                              InClass(last.pre.parents, m, last.args[1]))
    => \A p \in Pairs(last.args[2]) : FindNow(p[2]) = Ok(p[1])

\* C3 as amended.  The same, for a split whose new leaders are leaders at the
\* time of the call, whose members are neither L nor deprecated, and that
\* lists no id under two different new leaders.
C3_SplitReassignment ==
    (/\ last.op = "split"
     /\ \A m \in MembersOf(last.args[2]) :
           /\ InClass(last.pre.parents, m, last.args[1])
           /\ m # last.args[1]
           /\ ~Contains(last.pre.deprecated_leaders, m)
     /\ \A l \in LeadersOf(last.args[2]) : IsLeader(last.pre.parents, l)
     /\ \A p, q \in Pairs(last.args[2]) : p[2] = q[2] => p[1] = q[1])
    => \A p \in Pairs(last.args[2]) : FindNow(p[2]) = Ok(p[1])

\* A split has just moved a member of L's class under a leader other than L,
\* and find of the member returns that leader.
C3_Witness ==
    /\ last.op = "split"
    /\ last.args[2] # << >>
    /\ \A m \in MembersOf(last.args[2]) :
           /\ InClass(last.pre.parents, m, last.args[1])
           /\ m # last.args[1]
           /\ ~Contains(last.pre.deprecated_leaders, m)
    /\ \A l \in LeadersOf(last.args[2]) :
           IsLeader(last.pre.parents, l) /\ l # last.args[1]
    /\ \A p \in Pairs(last.args[2]) : FindNow(p[2]) = Ok(p[1])

\* C4 as stated.  After union(a, b) on two leaders, find(b) = a and
\* find(a) = a, and every id whose leader was b has leader a.
C4_UnionOfAnyLeaders ==
    (/\ last.op = "union"
     /\ IsLeader(last.pre.parents, last.args[1])
     /\ IsLeader(last.pre.parents, last.args[2]))
    => /\ FindNow(last.args[2]) = Ok(last.args[1])
       /\ FindNow(last.args[1]) = Ok(last.args[1])
       /\ \A y \in Ids(parents) :
              FindBefore(y) = Ok(last.args[2]) => FindNow(y) = Ok(last.args[1])

\* C4 as amended.  The same, for two leaders neither of which is deprecated.
C4_UnionDirectionality ==
    (/\ last.op = "union"
     /\ IsLeader(last.pre.parents, last.args[1])
     /\ IsLeader(last.pre.parents, last.args[2])
     /\ ~Contains(deprecated_leaders, last.args[1])
     /\ ~Contains(deprecated_leaders, last.args[2]))
    => /\ FindNow(last.args[2]) = Ok(last.args[1])
       /\ FindNow(last.args[1]) = Ok(last.args[1])
       /\ \A y \in Ids(parents) :
              FindBefore(y) = Ok(last.args[2]) => FindNow(y) = Ok(last.args[1])

\* union(a, b) has just merged two different leaders that are not deprecated,
\* and b led a third id, which a now leads.
C4_Witness ==
    /\ last.op = "union"
    /\ last.args[1] # last.args[2]
    /\ IsLeader(last.pre.parents, last.args[1])
    /\ IsLeader(last.pre.parents, last.args[2])
    /\ ~Contains(deprecated_leaders, last.args[1])
    /\ ~Contains(deprecated_leaders, last.args[2])
    /\ \E y \in Ids(parents) \ {last.args[1], last.args[2]} :
           FindBefore(y) = Ok(last.args[2]) /\ FindNow(y) = Ok(last.args[1])

\* C5.  Compression convergence, for a caller that only merges: every call
\* find_mut(x) returns what find(x) returned before the call, and leaves the
\* result of find(y) as it was for every id y.
C5_CompressionConvergence ==
    last.op = "find_mut"
    => /\ last.ret.kind = "ok"
       /\ last.ret = FindBefore(last.args[1])
       /\ \A y \in Ids(parents) : FindNow(y) = FindBefore(y)

\* find_mut has just shortened a path of two links or more.
C5_Witness ==
    /\ last.op = "find_mut"
    /\ last.ret.kind = "ok"
    /\ parent(last.pre.parents, last.args[1]) # last.ret.id
    /\ parent(parents, last.args[1]) = last.ret.id

\* C6.  find_mut(x) fails exactly when find(x) fails, and when neither fails
\* they return the same leader.
C6_FindMutFailsAsFind ==
    \A x \in Ids(parents) :
        /\ (FindMutNow(x).kind = "panic") <=> (FindNow(x).kind = "panic")
        /\ (FindMutNow(x).kind = "ok" /\ FindNow(x).kind = "ok")
              => FindMutNow(x) = FindNow(x)

C8_MonotonicDeprecationSet ==
    /\ NoDuplicates(deprecated_leaders)
    /\ Deprecated(deprecated_leaders) = split_called
    /\ last.op = "split"
          => deprecated_leaders =
                IF Contains(last.pre.deprecated_leaders, last.args[1])
                THEN last.pre.deprecated_leaders
                ELSE Append(last.pre.deprecated_leaders, last.args[1])
    /\ last.op \in {"make_set", "find", "find_mut", "union"}
          => deprecated_leaders = last.pre.deprecated_leaders

\* A second split of an already deprecated leader has left the collection,
\* which holds two entries, as it was.
C8_Witness ==
    /\ last.op = "split"
    /\ Contains(last.pre.deprecated_leaders, last.args[1])
    /\ deprecated_leaders = last.pre.deprecated_leaders
    /\ Len(deprecated_leaders) = 2

\* C9.  Sequential allocation: the k-th make_set returns k - 1 and makes the
\* new id its own parent; size() is the number of make_set calls and no other
\* operation changes it; with no union or split so far, find(i) = i.
C9_SequentialAllocation ==
    /\ size(parents) = make_set_calls
    /\ last.op = "make_set"
          => /\ last.ret = Ok(make_set_calls - 1)
             /\ parent(parents, last.ret.id) = last.ret.id
             /\ size(parents) = size(last.pre.parents) + 1
    /\ last.op \in {"find", "find_mut", "union", "split"}
          => size(parents) = size(last.pre.parents)
    /\ ~relinked => \A i \in Ids(parents) : FindNow(i) = Ok(i)

\* The second make_set, made after a union or a split, has returned id 1.
C9_Witness ==
    /\ last.op = "make_set"
    /\ relinked
    /\ last.ret = Ok(1)
    /\ make_set_calls = 2

\* C10.  make_set, find(x) and find_mut(x), returning or failing, leave the
\* result of find(y) as it was for every id y for which find(y) succeeded.
C10_ClassesChangeOnlyByUnionAndSplit ==
    last.op \in {"make_set", "find", "find_mut"}
    => \A y \in Ids(last.pre.parents) :
           FindBefore(y).kind = "ok" => FindNow(y) = FindBefore(y)

\* find_mut has just rewritten a parent entry in a table that holds a
\* deprecated leader, and find of every id returns what it returned before.
C10_Witness ==
    /\ last.op = "find_mut"
    /\ parents # last.pre.parents
    /\ deprecated_leaders # << >>
    /\ \A y \in Ids(parents) : FindNow(y) = FindBefore(y)

\* C11 as stated.  After make_set calls and union calls on leaders, one pass
\* of find_mut over all the ids in ascending order leaves the parent entry of
\* every id equal to the leader of the id.
C11_OnePassCompressesAll ==
    last.op = "find_mut_pass"
    => \A x \in Ids(parents) : Ok(parent(parents, x)) = FindBefore(x)

\* C11 as amended.  The same, when no id is more than two links away from its
\* leader before the pass.
C11_OnePassCompression ==
    (/\ last.op = "find_mut_pass"
     /\ \A x \in Ids(parents) : Links(last.pre.parents, x) <= 2)
    => \A x \in Ids(parents) : Ok(parent(parents, x)) = FindBefore(x)

\* A pass has just re-linked an id that was two links away from its leader,
\* and every parent entry is the leader.
C11_Witness ==
    /\ last.op = "find_mut_pass"
    /\ \A x \in Ids(parents) : Links(last.pre.parents, x) <= 2
    /\ \E x \in Ids(parents) : Links(last.pre.parents, x) = 2
    /\ \A x \in Ids(parents) : Ok(parent(parents, x)) = FindBefore(x)

\* C12.  Every call of find and of find_mut on an allocated id completes: it
\* returns an id or fails with the stale-reference violation, in every state
\* the caller can reach.
C12_EveryLookupCompletes ==
    \A x \in Ids(parents) :
        /\ FindNow(x).kind \in {"ok", "panic"}
        /\ FindMutNow(x).kind \in {"ok", "panic"}

\* C13.  A call find(q) or find_mut(q) that fails reports the pair (d, q): q
\* is the id passed to the call, d is a deprecated id on the parent chain
\* from q as it was when the call started, and d = q when q is deprecated.
C13_FailureReportsPair ==
    (last.op \in {"find", "find_mut"} /\ last.ret.kind = "panic")
    => /\ last.ret.original = last.args[1]
       /\ Contains(last.pre.deprecated_leaders, last.ret.d)
       /\ last.ret.d \in Chain(last.pre.parents, last.args[1])
       /\ Contains(last.pre.deprecated_leaders, last.args[1]) => last.ret.d = last.args[1]

\* find_mut has just failed at a deprecated id other than the query, after
\* it had re-linked the query.
C13_Witness ==
    /\ last.op = "find_mut"
    /\ last.ret.kind = "panic"
    /\ last.ret.d # last.args[1]
    /\ last.ret.original = last.args[1]
    /\ Contains(last.pre.deprecated_leaders, last.ret.d)
    /\ parents # last.pre.parents

\* C14 as stated.  split(leader_id, clusters) leaves the parent entry of
\* leader_id as it was, whatever allocated ids the clusters hold; only parent
\* entries of listed members can change, and size() does not change.
C14_SplitNeverRelinksLeader ==
    last.op = "split"
    => /\ parent(parents, last.args[1]) = parent(last.pre.parents, last.args[1])
       /\ \A x \in Ids(last.pre.parents) \ MembersOf(last.args[2]) :
              parent(parents, x) = parent(last.pre.parents, x)
       /\ size(parents) = size(last.pre.parents)

\* C14 as amended.  The same, with the parent entry of leader_id left as it
\* was when no members list holds leader_id.
C14_SplitFrame ==
    last.op = "split"
    => /\ last.args[1] \notin MembersOf(last.args[2])
              => parent(parents, last.args[1]) = parent(last.pre.parents, last.args[1])
       /\ \A x \in Ids(last.pre.parents) \ MembersOf(last.args[2]) :
              parent(parents, x) = parent(last.pre.parents, x)
       /\ size(parents) = size(last.pre.parents)

\* A split of a leader has just re-linked a member other than the leader,
\* and the leader still is its own parent.
C14_Witness ==
    /\ last.op = "split"
    /\ last.args[1] \notin MembersOf(last.args[2])
    /\ IsLeader(last.pre.parents, last.args[1])
    /\ parents # last.pre.parents
    /\ IsLeader(parents, last.args[1])

\* C15.  union(root1, root2), for any two allocated ids, returns root1, makes
\* root1 the parent of root2, and leaves every other parent entry, the size
\* and the deprecated-leader collection as they were; it never fails.
C15_UnionUnconditionalAndLocal ==
    last.op = "union"
    => /\ last.ret = Ok(last.args[1])
       /\ parent(parents, last.args[2]) = last.args[1]
       /\ \A x \in Ids(last.pre.parents) \ {last.args[2]} :
              parent(parents, x) = parent(last.pre.parents, x)
       /\ size(parents) = size(last.pre.parents)
       /\ deprecated_leaders = last.pre.deprecated_leaders

\* union has just re-linked an id that was not a leader, under a deprecated id.
C15_Witness ==
    /\ last.op = "union"
    /\ ~IsLeader(last.pre.parents, last.args[2])
    /\ Contains(deprecated_leaders, last.args[1])
    /\ parents # last.pre.parents
    /\ last.ret = Ok(last.args[1])

\* C16.  split never fails for allocated ids, and afterwards the parent entry
\* of every listed member m is the new leader of the last cluster, in list
\* order, that lists m, whatever the class of m was and whether or not that
\* new leader is a leader.
C16_SplitPermissiveInListOrder ==
    last.op = "split"
    => /\ last.ret.kind = "unit"
       /\ \A m \in MembersOf(last.args[2]) :
              parent(parents, m) = LastLeader(last.args[2], m)

\* A split has just listed an id outside the class of its leader_id under two
\* different new leaders, the second of which is not a leader, and the id is
\* under the second.
C16_Witness ==
    /\ last.op = "split"
    /\ Len(last.args[2]) = 2
    /\ last.args[2][1][1] # last.args[2][2][1]
    /\ ~IsLeader(last.pre.parents, last.args[2][2][1])
    /\ \E m \in ClusterMembers(last.args[2], 1) \cap ClusterMembers(last.args[2], 2) :
           /\ ~InClass(last.pre.parents, m, last.args[1])
           /\ parent(parents, m) = last.args[2][2][1]

\* C17.  Path halving: in a forest with no deprecated id, find_mut(x) on an id
\* x that is k links away from its leader leaves x at (k + 1) \div 2 links
\* from it, gives every id the loop visited its former grandparent as parent,
\* leaves the parent entries of the other ids as they were, and leaves no id
\* farther from its leader than it was.
C17_PathHalving ==
    (/\ last.op = "find_mut"
     /\ Forest(last.pre.parents)
     /\ last.pre.deprecated_leaders = << >>)
    => LET x == last.args[1]
           before == last.pre.parents
           visited == Visited(before, x, Len(before))
       IN  /\ Links(parents, x) = (Links(before, x) + 1) \div 2
           /\ \A v \in visited : parent(parents, v) = parent(before, parent(before, v))
           /\ \A y \in Ids(before) \ visited : parent(parents, y) = parent(before, y)
           /\ \A y \in Ids(before) : Links(parents, y) <= Links(before, y)
           /\ Forest(parents)

\* find_mut has just halved a path of three links into a path of two links,
\* re-linking the query and leaving the skipped id where it was.
C17_Witness ==
    /\ last.op = "find_mut"
    /\ last.pre.deprecated_leaders = << >>
    /\ Forest(last.pre.parents)
    /\ Links(last.pre.parents, last.args[1]) = 3
    /\ Links(parents, last.args[1]) = 2
    /\ Cardinality(Visited(last.pre.parents, last.args[1], Len(parents))) = 2

\* C18 as stated.  A find_mut that fails leaves the parent table and the
\* deprecated-leader collection as they were before the call.
C18_FailingFindMutHasNoEffect ==
    (last.op = "find_mut" /\ last.ret.kind = "panic")
    => /\ parents = last.pre.parents
       /\ deprecated_leaders = last.pre.deprecated_leaders

\* C18 as amended.  A find_mut(x) that fails leaves the deprecated-leader
\* collection and the size as they were; it leaves the parent table as it was
\* when x itself is deprecated, and otherwise it leaves as they were the
\* parent entry of the deprecated id it reports and the parent entries of the
\* ids that are not on the parent chain from x.
C18_FailingFindMutEffect ==
    (last.op = "find_mut" /\ last.ret.kind = "panic")
    => /\ deprecated_leaders = last.pre.deprecated_leaders
       /\ size(parents) = size(last.pre.parents)
       /\ Contains(last.pre.deprecated_leaders, last.args[1]) => parents = last.pre.parents
       /\ parent(parents, last.ret.d) = parent(last.pre.parents, last.ret.d)
       /\ \A y \in Ids(last.pre.parents) \ Chain(last.pre.parents, last.args[1]) :
              parent(parents, y) = parent(last.pre.parents, y)

\* find_mut has just put the query under its grandparent, a deprecated id,
\* and failed there.
C18_Witness ==
    /\ last.op = "find_mut"
    /\ last.ret.kind = "panic"
    /\ last.ret.msg = "found"
    /\ parent(last.pre.parents, last.args[1]) # last.ret.d
    /\ parent(parents, last.args[1]) = last.ret.d

\* C19.  split is idempotent: calling split(L, clusters) once more with the
\* same arguments, right after it was called, leaves the parent table and
\* the deprecated-leader collection as the first call left them.
C19_SplitIdempotent ==
    last.op = "split"
    => /\ SplitAgain.parents = parents
       /\ SplitAgain.deprecated_leaders = deprecated_leaders

\* A split has just deprecated its leader_id and re-linked a member, and a
\* second call with the same arguments would change nothing.
C19_Witness ==
    /\ last.op = "split"
    /\ parents # last.pre.parents
    /\ deprecated_leaders # last.pre.deprecated_leaders
    /\ SplitAgain.parents = parents
    /\ SplitAgain.deprecated_leaders = deprecated_leaders

====
